---- MODULE Spec2Model ----
(***************************************************************************)
(* BlendLoader (src/utility/loader/BlendLoader.py): loading entities from  *)
(* a .blend file into the running scene, filtering them by data block,     *)
(* name pattern and object type, merging the loaded objects under a new    *)
(* parent, and purging the orphans that the import left behind.            *)
(*                                                                         *)
(* Names, patterns and paths are sequences of one-character strings, so    *)
(* that matching, slicing and suffix tests are computed character by       *)
(* character.  Identifiers that the code only lower-cases and compares     *)
(* (data block names, object types) are strings.                           *)
(***************************************************************************)
EXTENDS Integers, Sequences, FiniteSets, TLC

(***************************************************************************)
(* Bounds                                                                  *)
(***************************************************************************)
\* largest numeric suffix (.001, .002, ...) the host tries for a taken name
MaxSuffix == 3

None == "None"

Range(s) == {s[k] : k \in 1..Len(s)}

(***************************************************************************)
(* Class attributes                                                        *)
(***************************************************************************)
\* the bpy.data collections of the modelled host, lower-cased
valid_datablocks == {"objects", "meshes", "materials", "screens"}

valid_object_types ==
    {"mesh", "curve", "surface", "meta", "font", "hair", "pointcloud", "volume",
     "gpencil", "armature", "lattice", "empty", "light", "light_probe", "camera",
     "speaker"}

\* the collections that the library context offers on data_from / data_to
DataFromAttrs == {"objects", "meshes", "materials"}

(***************************************************************************)
(* str.lower() on the identifiers that occur                               *)
(***************************************************************************)
LowerStr(s) ==
    CASE s = "MESH" -> "mesh"
      [] s = "Mesh" -> "mesh"
      [] s = "CURVE" -> "curve"
      [] s = "EMPTY" -> "empty"
      [] s = "CAMERA" -> "camera"
      [] s = "Meshes" -> "meshes"
      [] s = "Objects" -> "objects"
      [] OTHER -> s

(***************************************************************************)
(* _validate_and_standardizes_configured_list                              *)
(* A configured value is [isList |-> TRUE, elems |-> <<...>>] or           *)
(* [isList |-> FALSE, value |-> "..."].                                    *)
(***************************************************************************)
AsList(config_value) ==
    IF config_value.isList THEN config_value.elems ELSE <<config_value.value>>

Standardize(config_value) ==
    LET l == AsList(config_value) IN [k \in 1..Len(l) |-> LowerStr(l[k])]

ValidList(config_value, allowed_elements) ==
    \A k \in 1..Len(Standardize(config_value)) :
        Standardize(config_value)[k] \in allowed_elements

(***************************************************************************)
(* re.fullmatch on patterns made of literal characters, "." and a postfix  *)
(* "*"                                                                     *)
(***************************************************************************)
CharMatch(p, c) == p = "." \/ p = c

RECURSIVE FullMatch(_, _)
FullMatch(pat, s) ==
    IF pat = <<>> THEN s = <<>>
    ELSE IF Len(pat) >= 2 /\ pat[2] = "*"
         THEN \/ FullMatch(SubSeq(pat, 3, Len(pat)), s)
              \/ /\ s # <<>>
                 /\ CharMatch(pat[1], s[1])
                 /\ FullMatch(pat, Tail(s))
         ELSE /\ s # <<>>
              /\ CharMatch(pat[1], s[1])
              /\ FullMatch(Tail(pat), Tail(s))

\* re.match: the pattern has to match a prefix of the name only
RECURSIVE PrefixMatch(_, _)
PrefixMatch(pat, s) ==
    IF pat = <<>> THEN TRUE
    ELSE IF Len(pat) >= 2 /\ pat[2] = "*"
         THEN \/ PrefixMatch(SubSeq(pat, 3, Len(pat)), s)
              \/ /\ s # <<>>
                 /\ CharMatch(pat[1], s[1])
                 /\ PrefixMatch(pat, Tail(s))
         ELSE /\ s # <<>>
              /\ CharMatch(pat[1], s[1])
              /\ PrefixMatch(Tail(pat), Tail(s))

\* a pattern is [isNone |-> BOOLEAN, pat |-> sequence of characters]
RegexFalsy(name_regrex) == name_regrex.isNone \/ name_regrex.pat = <<>>

\* re.match in place of re.fullmatch
WantedByPrefix(name_regrex, entity_name) ==
    RegexFalsy(name_regrex) \/ PrefixMatch(name_regrex.pat, entity_name)

\* line 79: not name_regrex or re.fullmatch(name_regrex, entity_name) is not None
Wanted(name_regrex, entity_name) ==
    RegexFalsy(name_regrex) \/ FullMatch(name_regrex.pat, entity_name)

\* lines 77-80: the entity names of one data block that are requested
DataToEntities(names, name_regrex) ==
    SelectSeq(names, LAMBDA entity_name : Wanted(name_regrex, entity_name))

(***************************************************************************)
(* String helpers of the merge step                                        *)
(***************************************************************************)
Digits == <<"0", "1", "2", "3", "4", "5", "6", "7", "8", "9">>

IsDigit(c) == c \in Range(Digits)

RECURSIVE LastSlash(_, _)
LastSlash(s, k) ==
    IF k = 0 THEN 0 ELSE IF s[k] = "/" THEN k ELSE LastSlash(s, k - 1)

\* path.split('/')[-1]
LastComponent(s) == SubSeq(s, LastSlash(s, Len(s)) + 1, Len(s))

\* s[:-n]
DropLast(s, n) == SubSeq(s, 1, Len(s) - n)

\* path.split('/')[-1][:-6]
FileBaseName(p) == DropLast(LastComponent(p), 6)

\* parent_name[-4] == '.' and parent_name[-3:].isdigit(), for Len >= 4
HasNumericSuffix(s) ==
    /\ Len(s) >= 4
    /\ s[Len(s) - 3] = "."
    /\ \A k \in (Len(s) - 2)..Len(s) : IsDigit(s[k])

(***************************************************************************)
(* The datablocks of the model: the contents of the .blend file, what the  *)
(* host may hold before the load, and the parent created by the merge.     *)
(***************************************************************************)
FileObjects == <<"o1", "o2", "o3", "o4">>
FileMeshes == <<"m1", "m2">>
FileMaterials == <<"t1">>
HostIds == {"h1", "hm1", "hm2"}
NewParent == "P"

FileIds == Range(FileObjects) \cup Range(FileMeshes) \cup Range(FileMaterials)
AllIds == FileIds \cup HostIds \cup {NewParent}

\* the bpy.data collection a datablock lives in
Coll(d) ==
    CASE d \in Range(FileObjects) \cup {"h1", NewParent} -> "objects"
      [] d \in Range(FileMeshes) \cup {"hm1", "hm2"} -> "meshes"
      [] OTHER -> "materials"

\* the name of a datablock in the file, or in the host before the load
OrigName(d) ==
    CASE d = "o1" -> <<"C", "a", "m">>
      [] d = "o2" -> <<"C", "u", "b", "e">>
      [] d = "o3" -> <<"C", "u", "b", "e", ".", "0", "0", "1">>
      [] d = "o4" -> <<"R", "a", "i", "l">>
      [] d = "m1" -> <<"C", "u", "b", "e">>
      [] d = "m2" -> <<"L", "i", "d">>
      [] d = "t1" -> <<"M", "a", "t">>
      [] d = "h1" -> <<"C", "u", "b", "e">>
      [] d = "hm1" -> <<"B", "o", "x">>
      [] d = "hm2" -> <<"O", "l", "d">>
      [] OTHER -> <<>>

\* obj.type
Type(d) ==
    CASE d = "o1" -> "CAMERA"
      [] d = "o2" -> "MESH"
      [] d = "o3" -> "MESH"
      [] d = "o4" -> "CURVE"
      [] d = "h1" -> "MESH"
      [] d = NewParent -> "EMPTY"
      [] OTHER -> None

\* the parent an object has in the file
FileParent(d) == IF d = "o2" THEN "o4" ELSE None

\* the datablocks a datablock uses (each use counts as one user)
Refs(d) ==
    CASE d = "o2" -> {"m1"}
      [] d = "o3" -> {"m2"}
      [] d = "m1" -> {"t1"}
      [] d = "h1" -> {"hm1"}
      [] OTHER -> {}

\* frames of the key frames of an object's animation
Keyframes(d) == IF d = "o1" THEN {2, 5} ELSE {}

\* getattr(data_from, data_block): the entities of one data block of the file
FileBlock(data_block) ==
    CASE data_block = "objects" -> FileObjects
      [] data_block = "meshes" -> FileMeshes
      [] data_block = "materials" -> FileMaterials
      [] OTHER -> <<>>

DataFrom(data_block) ==
    [k \in 1..Len(FileBlock(data_block)) |-> OrigName(FileBlock(data_block)[k])]

\* the entity of a data block of the file that has the given name
FileEntity(data_block, n) ==
    CHOOSE d \in Range(FileBlock(data_block)) : OrigName(d) = n

(***************************************************************************)
(* Host data API                                                           *)
(***************************************************************************)
\* datablock.users
Users(d, ex, lnk) ==
    Cardinality({x \in ex : d \in Refs(x)}) + (IF d \in lnk THEN 1 ELSE 0)

\* collect_all_orphan_datablocks
Orphans(ex, lnk) == {d \in ex : Users(d, ex, lnk) = 0}

\* the names taken in the collection of d
Taken(c, ex, nm) == {nm[x] : x \in {y \in ex : Coll(y) = c}}

StripSuffix(n) == IF HasNumericSuffix(n) THEN DropLast(n, 4) ELSE n

NumSuffix(k) == <<".", "0", "0", Digits[k + 1]>>

\* the name the host gives a new datablock that asks for name n
UniqueName(n, taken) ==
    IF n \notin taken THEN n
    ELSE LET free == {k \in 1..MaxSuffix : (StripSuffix(n) \o NumSuffix(k)) \notin taken}
             k == CHOOSE q \in free : \A r \in free : q <= r
         IN  StripSuffix(n) \o NumSuffix(k)

\* everything the given datablocks use, directly or not
RECURSIVE Closure(_)
Closure(S) ==
    LET T == S \cup UNION {Refs(d) : d \in S}
    IN  IF T = S THEN S ELSE Closure(T)

\* the host names the datablocks of ds in order
RECURSIVE NameAll(_, _, _)
NameAll(ds, ex, nm) ==
    IF ds = <<>> THEN nm
    ELSE LET d == Head(ds)
             n == UniqueName(OrigName(d), Taken(Coll(d), ex, nm))
         IN  NameAll(Tail(ds), ex \cup {d}, [nm EXCEPT ![d] = n])

\* bpy.data.<collection>.remove(d): d goes, and whatever pointed to it is unset
ParentsAfterRemove(par, d) == [x \in DOMAIN par |-> IF par[x] = d THEN None ELSE par[x]]

(***************************************************************************)
(* Arguments of load                                                       *)
(***************************************************************************)
PARENT_NAME == <<"p", "a", "r", "e", "n", "t", "_", "n", "a", "m", "e">>
PARENT_OBJECT == <<"p", "a", "r", "e", "n", "t", "_", "o", "b", "j", "e", "c", "t">>
FILENAME == <<"f", "i", "l", "e", "n", "a", "m", "e">>

WorkingDir == <<"/", "w">>

Paths ==
    { <<"/", "d", "/", "s", "c", ".", "b", "l", "e", "n", "d">>,
      <<"a", "b", "c", "d", ".", "b", "l", "e", "n", "d">> }

ObjTypesInputs ==
    { [isList |-> TRUE, elems |-> <<"mesh", "empty">>],
      [isList |-> FALSE, value |-> "Mesh"],
      [isList |-> TRUE, elems |-> <<"CAMERA", "mesh", "curve">>],
      [isList |-> TRUE, elems |-> <<"empty">>],
      [isList |-> TRUE, elems |-> <<"bogus">>] }

RegexInputs ==
    { [isNone |-> TRUE, pat |-> <<>>],
      [isNone |-> FALSE, pat |-> <<>>],
      [isNone |-> FALSE, pat |-> <<"C", "u", "b", "e">>],
      [isNone |-> FALSE, pat |-> <<"C", "u", ".", "*">>],
      [isNone |-> FALSE, pat |-> <<"C", ".", "*">>] }

DataBlocksInputs ==
    { [isList |-> FALSE, value |-> "objects"],
      [isList |-> TRUE, elems |-> <<"objects", "meshes">>],
      [isList |-> TRUE, elems |-> <<"Meshes">>],
      [isList |-> TRUE, elems |-> <<"materials", "Objects">>],
      [isList |-> TRUE, elems |-> <<"objects", "objects">>],
      [isList |-> TRUE, elems |-> <<"objects", "screens">>],
      [isList |-> FALSE, value |-> "foo"] }

MergedObjectNames == {PARENT_NAME, PARENT_OBJECT, FILENAME, <<"C", "u", "b", "e">>}

Args ==
    [path : Paths, obj_types : ObjTypesInputs, name_regrex : RegexInputs,
     data_blocks : DataBlocksInputs, merge_objects : BOOLEAN,
     merged_object_name : MergedObjectNames]

\* Utility.resolve_path: an absolute path is kept, a relative one is put under
\* the working directory
ResolvePath(path) ==
    IF path # <<>> /\ path[1] = "/" THEN path ELSE WorkingDir \o <<"/">> \o path

(***************************************************************************)
(* State                                                                   *)
(***************************************************************************)
VARIABLES
    pc,                      \* position in load
    args,                    \* the arguments of the call
    exists,                  \* the datablocks in bpy.data
    name,                    \* datablock.name
    parent,                  \* obj.parent
    linked,                  \* bpy.context.collection.objects
    scene_camera,            \* bpy.context.scene.camera
    frame_end,               \* bpy.context.scene.frame_end
    path,                    \* the resolved path
    data_blocks,             \* the standardized data_blocks
    obj_types,               \* the standardized obj_types
    orphans_before,
    data_to_names,           \* data_to inside the library context: names
    data_to,                 \* data_to after the library context: datablocks
    potential_parent_names,
    loaded_objects,
    i,                       \* index of the data block being handled
    j,                       \* index of the object being handled
    parent_name,
    parent_obj,
    purge_orphans,
    orphans_todo,            \* the orphans of this pass not yet visited
    result,                  \* the returned list
    orphans_at_start,        \* the orphans when load was called
    parent_at_merge          \* obj.parent when the merge step began

vars ==
    <<pc, args, exists, name, parent, linked, scene_camera, frame_end, path,
      data_blocks, obj_types, orphans_before, data_to_names, data_to,
      potential_parent_names, loaded_objects, i, j, parent_name, parent_obj,
      purge_orphans, orphans_todo, result, orphans_at_start, parent_at_merge>>

hostVars == <<exists, name, parent, linked, scene_camera, frame_end>>

EmptyDataTo == [c \in DataFromAttrs |-> <<>>]

\* what the host holds before the call: nothing, or a linked object with its
\* mesh and a mesh nobody uses
HostBefore == {{}, HostIds}

Init ==
    /\ pc = "start"
    /\ args \in Args
    /\ exists \in HostBefore
    /\ name = [d \in AllIds |-> IF d \in exists THEN OrigName(d) ELSE <<>>]
    /\ parent = [d \in AllIds |-> None]
    /\ linked = exists \cap {"h1"}
    /\ scene_camera = None
    /\ frame_end = 0
    /\ path = <<>>
    /\ data_blocks = <<>>
    /\ obj_types = <<>>
    /\ orphans_before = {}
    /\ data_to_names = EmptyDataTo
    /\ data_to = EmptyDataTo
    /\ potential_parent_names = <<>>
    /\ loaded_objects = <<>>
    /\ i = 1
    /\ j = 1
    /\ parent_name = <<>>
    /\ parent_obj = None
    /\ purge_orphans = FALSE
    /\ orphans_todo = {}
    /\ result = <<>>
    /\ orphans_at_start = Orphans(exists, linked)
    /\ parent_at_merge = parent

(***************************************************************************)
(* load, lines 64-69: resolve the path, standardize and validate the       *)
(* lists, remember the orphans                                             *)
(***************************************************************************)
Validate ==
    /\ pc = "start"
    /\ path' = ResolvePath(args.path)
    /\ IF /\ ValidList(args.data_blocks, valid_datablocks)
          /\ ValidList(args.obj_types, valid_object_types)
       THEN /\ data_blocks' = Standardize(args.data_blocks)
            /\ obj_types' = Standardize(args.obj_types)
            /\ orphans_before' = Orphans(exists, linked)
            /\ pc' = "request"
       ELSE /\ pc' = "raised"
            /\ UNCHANGED <<data_blocks, obj_types, orphans_before>>
    /\ UNCHANGED <<args, hostVars, data_to_names, data_to, potential_parent_names,
                   loaded_objects, i, j, parent_name, parent_obj, purge_orphans,
                   orphans_todo, result, orphans_at_start, parent_at_merge>>

(***************************************************************************)
(* load, line 72: leaving the library context imports what data_to names,  *)
(* together with what it uses.  The context is left on every way out of    *)
(* the with block, also when its body raised.                              *)
(***************************************************************************)
RequestedIds(names) ==
    [c \in DataFromAttrs |->
        [k \in 1..Len(names[c]) |-> FileEntity(c, names[c][k])]]

LibraryImport(names) ==
    LET ids == RequestedIds(names)
        imported == Closure(UNION {Range(ids[c]) : c \in DataFromAttrs})
        order == SelectSeq(FileObjects \o FileMeshes \o FileMaterials,
                           LAMBDA d : d \in imported)
    IN  /\ data_to' = ids
        /\ exists' = exists \cup imported
        /\ name' = NameAll(order, exists, name)
        /\ parent' = [d \in AllIds |->
                         IF d \in imported /\ FileParent(d) \in imported
                         THEN FileParent(d) ELSE parent[d]]

(***************************************************************************)
(* load, lines 73-85: one data block inside the library context; line 85   *)
(* raises inside the with block, so the context is left with what was      *)
(* requested until then                                                    *)
(***************************************************************************)
Request ==
    /\ pc = "request"
    /\ i <= Len(data_blocks)
    /\ IF data_blocks[i] \in DataFromAttrs
       THEN /\ data_to_names' =
                  [data_to_names EXCEPT ![data_blocks[i]] =
                      DataToEntities(DataFrom(data_blocks[i]), args.name_regrex)]
            /\ i' = i + 1
            /\ pc' = pc
            /\ UNCHANGED <<exists, name, parent, data_to>>
       ELSE /\ LibraryImport(data_to_names)
            /\ pc' = "raised"
            /\ UNCHANGED <<data_to_names, i>>
    /\ UNCHANGED <<args, linked, scene_camera, frame_end, path, data_blocks,
                   obj_types, orphans_before, potential_parent_names,
                   loaded_objects, j, parent_name, parent_obj, purge_orphans,
                   orphans_todo, result, orphans_at_start, parent_at_merge>>

\* line 72: the with block ends after the last data block
LibraryExit ==
    /\ pc = "request"
    /\ i > Len(data_blocks)
    /\ LibraryImport(data_to_names)
    /\ i' = 1
    /\ j' = 1
    /\ pc' = IF Len(data_blocks) = 0 THEN "merge" ELSE "process"
    /\ UNCHANGED <<args, linked, scene_camera, frame_end, path, data_blocks,
                   obj_types, orphans_before, data_to_names, potential_parent_names,
                   loaded_objects, parent_name, parent_obj, purge_orphans,
                   orphans_todo, result, orphans_at_start, parent_at_merge>>

(***************************************************************************)
(* load, lines 92-131: go over the imported entities again                 *)
(***************************************************************************)
Max(a, b) == IF a >= b THEN a ELSE b

RECURSIVE MaxOf(_, _)
MaxOf(S, m) ==
    IF S = {} THEN m
    ELSE LET x == CHOOSE y \in S : TRUE IN MaxOf(S \ {x}, Max(m, x))

\* lines 107-114: the maximum frame number of the key frames, -1 without any
MaxKeyframe(obj) == MaxOf(Keyframes(obj), -1)

TypeDesiredExact(obj, types) == Type(obj) \in Range(types)

\* line 97: obj.type.lower() in obj_types
TypeDesired(obj, types) == LowerStr(Type(obj)) \in Range(types)

\* lines 120 and 124: the name of the object may name the merged parent
IsPotentialParent(obj, par) ==
    /\ args.merge_objects
    /\ par[obj] = None
    /\ args.merged_object_name = PARENT_NAME

AfterBlock == IF i + 1 > Len(data_blocks) THEN "merge" ELSE "process"

\* lines 95-128: one imported object
ProcessObject ==
    /\ pc = "process"
    /\ i <= Len(data_blocks)
    /\ data_blocks[i] = "objects"
    /\ j <= Len(data_to["objects"])
    /\ LET obj == data_to["objects"][j] IN
       IF obj \notin exists
       THEN \* the object was removed in an earlier round: ReferenceError
            /\ pc' = "raised"
            /\ UNCHANGED <<hostVars, loaded_objects, potential_parent_names, j>>
       ELSE IF TypeDesired(obj, obj_types)
       THEN IF obj \in linked
            THEN \* the object is in the collection already: RuntimeError
                 /\ pc' = "raised"
                 /\ UNCHANGED <<hostVars, loaded_objects, potential_parent_names, j>>
            ELSE /\ linked' = linked \cup {obj}
                 /\ loaded_objects' = Append(loaded_objects, obj)
                 /\ IF Type(obj) = "CAMERA"
                    THEN /\ scene_camera' = obj
                         /\ frame_end' = MaxKeyframe(obj) + 1
                    ELSE UNCHANGED <<scene_camera, frame_end>>
                 /\ potential_parent_names' =
                        IF IsPotentialParent(obj, parent)
                        THEN Append(potential_parent_names, name[obj])
                        ELSE potential_parent_names
                 /\ j' = j + 1
                 /\ pc' = pc
                 /\ UNCHANGED <<exists, name, parent>>
       ELSE /\ potential_parent_names' =
                   IF IsPotentialParent(obj, parent)
                   THEN <<name[obj]>> \o potential_parent_names
                   ELSE potential_parent_names
            /\ exists' = exists \ {obj}
            /\ linked' = linked \ {obj}
            /\ parent' = [ParentsAfterRemove(parent, obj) EXCEPT ![obj] = None]
            /\ j' = j + 1
            /\ pc' = pc
            /\ UNCHANGED <<name, scene_camera, frame_end, loaded_objects>>
    /\ UNCHANGED <<args, path, data_blocks, obj_types, orphans_before,
                   data_to_names, data_to, i, parent_name, parent_obj,
                   purge_orphans, orphans_todo, result, orphans_at_start,
                   parent_at_merge>>

\* line 129: all objects of the data block are handled
ObjectsDone ==
    /\ pc = "process"
    /\ i <= Len(data_blocks)
    /\ data_blocks[i] = "objects"
    /\ j > Len(data_to["objects"])
    /\ i' = i + 1
    /\ j' = 1
    /\ pc' = AfterBlock
    /\ UNCHANGED <<args, hostVars, path, data_blocks, obj_types, orphans_before,
                   data_to_names, data_to, potential_parent_names, loaded_objects,
                   parent_name, parent_obj, purge_orphans, orphans_todo, result,
                   orphans_at_start, parent_at_merge>>

\* lines 130-131: the entities of any other data block are taken as they are
ExtendLoaded ==
    /\ pc = "process"
    /\ i <= Len(data_blocks)
    /\ data_blocks[i] # "objects"
    /\ loaded_objects' = loaded_objects \o data_to[data_blocks[i]]
    /\ i' = i + 1
    /\ pc' = AfterBlock
    /\ UNCHANGED <<args, hostVars, path, data_blocks, obj_types, orphans_before,
                   data_to_names, data_to, potential_parent_names, j, parent_name,
                   parent_obj, purge_orphans, orphans_todo, result,
                   orphans_at_start, parent_at_merge>>

(***************************************************************************)
(* load, lines 134-159: merge the loaded objects under a new parent        *)
(***************************************************************************)
\* lines 134 and 164
DoMerge == args.merge_objects /\ Len(loaded_objects) > 1

\* lines 139-142
FirstCandidate ==
    IF Len(potential_parent_names) >= 1
    THEN potential_parent_names[1]
    ELSE FileBaseName(path)

\* line 144 raises IndexError on a name of fewer than four characters
SuffixTestRaises == args.merged_object_name = PARENT_NAME /\ Len(FirstCandidate) < 4

\* lines 136-147
ChosenParentName ==
    IF args.merged_object_name = FILENAME THEN FileBaseName(path)
    ELSE IF args.merged_object_name = PARENT_NAME
         THEN (IF HasNumericSuffix(FirstCandidate)
               THEN DropLast(FirstCandidate, 4)
               ELSE FirstCandidate)
         ELSE args.merged_object_name

AdoptAlways(par) == TRUE

\* lines 156-159: an object is given the new parent when it has none
ShouldAdopt(par) == par = None

\* the positions of loaded_objects reached before one has no attribute parent
Reached ==
    {k \in 1..Len(loaded_objects) :
        \A q \in 1..(k - 1) : Coll(loaded_objects[q]) = "objects"}

Merge ==
    /\ pc = "merge"
    /\ parent_at_merge' = parent
    /\ IF ~DoMerge
       THEN /\ pc' = "purge_collect"
            /\ UNCHANGED <<hostVars, parent_name, parent_obj>>
       ELSE IF SuffixTestRaises
       THEN /\ pc' = "raised"
            /\ UNCHANGED <<hostVars, parent_name, parent_obj>>
       ELSE /\ parent_name' = ChosenParentName
            /\ parent_obj' = NewParent
            /\ exists' = exists \cup {NewParent}
            /\ name' = [name EXCEPT ![NewParent] =
                           UniqueName(ChosenParentName, Taken("objects", exists, name))]
            /\ linked' = linked \cup {NewParent}
            /\ parent' =
                   [d \in AllIds |->
                       IF /\ \E k \in Reached : loaded_objects[k] = d
                          /\ Coll(d) = "objects"
                          /\ ShouldAdopt(parent[d])
                       THEN NewParent ELSE parent[d]]
            \* a loaded entity that is no object has no parent: AttributeError
            /\ pc' = IF \A k \in 1..Len(loaded_objects) :
                            Coll(loaded_objects[k]) = "objects"
                     THEN "purge_collect" ELSE "raised"
            /\ UNCHANGED <<scene_camera, frame_end>>
    /\ UNCHANGED <<args, path, data_blocks, obj_types, orphans_before,
                   data_to_names, data_to, potential_parent_names, loaded_objects,
                   i, j, purge_orphans, orphans_todo, result, orphans_at_start>>

(***************************************************************************)
(* _purge_added_orphans, lines 176-189                                     *)
(***************************************************************************)
\* line 183: the orphans that were added due to this loader
AddedOrphans(after, before) == after \ before

NotOnPurposeAlways(orphan, to) == TRUE

\* line 185: orphan not in getattr(data_to, collection_name)
NotOnPurpose(orphan, to) == orphan \notin Range(to[Coll(orphan)])

RunAgainNever(flag) == FALSE

\* line 177: while purge_orphans
RunAgain(flag) == flag

\* lines 178-179: a pass begins with the orphans of that moment
PurgeCollect ==
    /\ pc = "purge_collect"
    /\ purge_orphans' = FALSE
    /\ orphans_todo' = AddedOrphans(Orphans(exists, linked), orphans_before)
    /\ pc' = "purge_loop"
    /\ UNCHANGED <<args, hostVars, path, data_blocks, obj_types, orphans_before,
                   data_to_names, data_to, potential_parent_names, loaded_objects,
                   i, j, parent_name, parent_obj, result, orphans_at_start,
                   parent_at_merge>>

\* lines 183-189: one orphan of the pass
PurgeOrphan ==
    /\ pc = "purge_loop"
    /\ \E orphan \in orphans_todo :
        /\ orphans_todo' = orphans_todo \ {orphan}
        /\ IF NotOnPurpose(orphan, data_to)
           THEN /\ exists' = exists \ {orphan}
                /\ linked' = linked \ {orphan}
                /\ parent' = [ParentsAfterRemove(parent, orphan) EXCEPT ![orphan] = None]
                /\ purge_orphans' = TRUE
           ELSE UNCHANGED <<exists, linked, parent, purge_orphans>>
    /\ pc' = pc
    /\ UNCHANGED <<args, name, scene_camera, frame_end, path, data_blocks,
                   obj_types, orphans_before, data_to_names, data_to,
                   potential_parent_names, loaded_objects, i, j, parent_name,
                   parent_obj, result, orphans_at_start, parent_at_merge>>

\* line 177: the pass is over; another one follows when something was removed
PurgePassEnd ==
    /\ pc = "purge_loop"
    /\ orphans_todo = {}
    /\ pc' = IF RunAgain(purge_orphans) THEN "purge_collect" ELSE "return"
    /\ UNCHANGED <<args, hostVars, path, data_blocks, obj_types, orphans_before,
                   data_to_names, data_to, potential_parent_names, loaded_objects,
                   i, j, parent_name, parent_obj, purge_orphans, orphans_todo,
                   result, orphans_at_start, parent_at_merge>>

(***************************************************************************)
(* load, lines 164-167                                                     *)
(***************************************************************************)
\* bpy.data.objects[key]
ObjectsNamed(key) == {d \in exists : Coll(d) = "objects" /\ name[d] = key}

Return ==
    /\ pc = "return"
    /\ IF DoMerge
       THEN IF ObjectsNamed(parent_name) = {}
            THEN /\ pc' = "raised"
                 /\ UNCHANGED result
            ELSE /\ result' = <<CHOOSE d \in ObjectsNamed(parent_name) : TRUE>>
                 /\ pc' = "done"
       ELSE /\ result' = loaded_objects
            /\ pc' = "done"
    /\ UNCHANGED <<args, hostVars, path, data_blocks, obj_types, orphans_before,
                   data_to_names, data_to, potential_parent_names, loaded_objects,
                   i, j, parent_name, parent_obj, purge_orphans, orphans_todo,
                   orphans_at_start, parent_at_merge>>

Next ==
    \/ Validate
    \/ Request
    \/ LibraryExit
    \/ ProcessObject
    \/ ObjectsDone
    \/ ExtendLoaded
    \/ Merge
    \/ PurgeCollect
    \/ PurgeOrphan
    \/ PurgePassEnd
    \/ Return

Spec == Init /\ [][Next]_vars

(***************************************************************************)
(* Properties                                                              *)
(***************************************************************************)
AfterRequests == pc \in {"process", "merge", "purge_collect", "purge_loop", "return", "done"}

GivenDataBlocks == Range(Standardize(args.data_blocks))

FullyMatched(n) ==
    \/ args.name_regrex.isNone
    \/ args.name_regrex.pat = <<>>
    \/ FullMatch(args.name_regrex.pat, n)

\* C1: for every data block named in data_blocks exactly the entities of the
\* file whose whole name is matched by name_regrex are requested, all of them
\* when name_regrex is None or empty, and nothing is requested from a data
\* block that was not named.
C1_RequestsFullMatches ==
    AfterRequests =>
        \A c \in DataFromAttrs :
            data_to_names[c] =
                IF c \in GivenDataBlocks
                THEN SelectSeq(DataFrom(c), FullyMatched)
                ELSE <<>>

\* a pattern that matches a prefix of a name of the file which is left out
C1_Witness ==
    /\ AfterRequests
    /\ args.name_regrex.pat = <<"C", "u", "b", "e">>
    /\ data_to_names["objects"] = << <<"C", "u", "b", "e">> >>
    /\ data_to_names["meshes"] = <<>>

ReturnedPlain == pc = "done" /\ ~args.merge_objects /\ "objects" \in GivenDataBlocks

\* C2: after a load of "objects" without merging, every imported object of a
\* wanted type is linked to the scene collection and returned, every imported
\* object of another type is removed from the host, not linked and not
\* returned, and the entities of the other data blocks are returned whatever
\* they are.
C2_ObjectsFilteredByType ==
    ReturnedPlain =>
        /\ \A o \in Range(data_to["objects"]) :
              IF LowerStr(Type(o)) \in Range(Standardize(args.obj_types))
              THEN o \in exists /\ o \in linked /\ o \in Range(result)
              ELSE o \notin exists /\ o \notin linked /\ o \notin Range(result)
        /\ \A c \in GivenDataBlocks \ {"objects"} :
              \A d \in Range(data_to[c]) : d \in Range(result)

\* a mesh object kept, a camera removed and two meshes returned
C2_Witness ==
    /\ ReturnedPlain
    /\ "o2" \in linked
    /\ "o1" \in Range(data_to["objects"]) /\ "o1" \notin exists
    /\ {"m1", "m2"} \subseteq Range(result)

AddedOrphanLeft(d) ==
    /\ d \in exists
    /\ Users(d, exists, linked) = 0
    /\ d \notin orphans_at_start
    /\ d \notin Range(data_to[Coll(d)])

\* C3: when load returns, no datablock is left that is an orphan, was no
\* orphan when the load started and was not requested for import, also when
\* it became an orphan only through the removal of another orphan.
C3_NoAddedOrphanLeft ==
    pc = "done" => \A d \in AllIds : ~AddedOrphanLeft(d)

\* the material was imported with its mesh and went after the mesh had gone
C3_Witness ==
    /\ pc = "done"
    /\ name["t1"] # <<>> /\ "t1" \notin exists
    /\ name["m1"] # <<>> /\ "m1" \notin exists

InPurge == pc \in {"purge_collect", "purge_loop"}

\* C4: _purge_added_orphans removes no datablock that was an orphan before
\* the load, none that was loaded on purpose, and only datablocks that are
\* orphans when they are removed.
C4_PurgeRemovesOnlyAddedOrphans ==
    [][InPurge =>
          \A d \in exists \ exists' :
              /\ Users(d, exists, linked) = 0
              /\ d \notin orphans_at_start
              /\ d \notin Range(data_to[Coll(d)])]_vars

\* a purge that removed a mesh and kept an older orphan and a requested one
C4_Witness ==
    /\ pc = "done"
    /\ name["m2"] # <<>> /\ "m2" \notin exists
    /\ "hm2" \in exists /\ Users("hm2", exists, linked) = 0
    /\ "m1" \in Range(data_to["meshes"])
    /\ "m1" \in exists /\ Users("m1", exists, linked) = 0

MoreThanOneLoaded == args.merge_objects /\ Len(loaded_objects) > 1

CreatedObjects == {d \in exists : Coll(d) = "objects"} \ (HostIds \cup FileIds)

\* C5: with merge_objects and more than one loaded entity exactly one empty
\* object is created and linked, it is the parent of every loaded object that
\* had none and the others keep theirs; otherwise no object is created and no
\* loaded object's parent is changed.  (Parents are compared with those at the
\* beginning of the merge step.)
C5_MergeUnderOneParent ==
    pc = "done" =>
        IF MoreThanOneLoaded
        THEN /\ CreatedObjects = {parent_obj}
             /\ Type(parent_obj) = "EMPTY"
             /\ parent_obj \in linked
             /\ \A o \in Range(loaded_objects) :
                   parent[o] = IF parent_at_merge[o] = None
                               THEN parent_obj
                               ELSE parent_at_merge[o]
        ELSE /\ CreatedObjects = {}
             /\ \A o \in Range(loaded_objects) : parent[o] = parent_at_merge[o]

\* a merge that met an object with a parent and one without
C5_Witness ==
    /\ pc = "done"
    /\ MoreThanOneLoaded
    /\ \E o \in Range(loaded_objects) : parent_at_merge[o] # None /\ parent[o] # parent_obj
    /\ \E o \in Range(loaded_objects) : parent[o] = parent_obj

\* C6: with merge_objects and more than one loaded entity load returns the
\* one object it created as parent, whatever merged_object_name is and
\* whatever names the host's objects have; otherwise the loaded entities.
C6_ReturnsCreatedParent ==
    pc = "done" =>
        result = IF MoreThanOneLoaded THEN <<parent_obj>> ELSE loaded_objects

Blend == <<".", "b", "l", "e", "n", "d">>

\* the file name of the path without the extension .blend
FileNameNoExt ==
    LET f == LastComponent(ResolvePath(args.path))
        k == CHOOSE q \in 0..Len(f) : SubSeq(f, 1, q) \o Blend = f
    IN  SubSeq(f, 1, k)

WithoutNumericSuffix(n) ==
    IF /\ Len(n) >= 4
       /\ n[Len(n) - 3] = "."
       /\ \A k \in (Len(n) - 2)..Len(n) : n[k] \in Range(Digits)
    THEN SubSeq(n, 1, Len(n) - 4)
    ELSE n

\* the names of the imported objects without a parent among the loaded objects
ParentlessNames ==
    {name[o] : o \in {x \in Range(data_to["objects"]) :
                          FileParent(x) \notin Range(loaded_objects)}}

\* C7: the merged parent is named after the file (without .blend) for
\* 'filename', after a parentless imported object (the file when there is
\* none) without a trailing .NNN for 'parent_object', and as the given string
\* for anything else.
C7_MergedName ==
    (pc = "done" /\ MoreThanOneLoaded) =>
        IF args.merged_object_name = FILENAME
        THEN parent_name = FileNameNoExt
        ELSE IF args.merged_object_name = PARENT_OBJECT
             THEN \E n \in (IF ParentlessNames = {} THEN {FileNameNoExt} ELSE ParentlessNames) :
                      parent_name = WithoutNumericSuffix(n)
             ELSE parent_name = args.merged_object_name

====
